---- MODULE Spec2Model ----
(***************************************************************************)
(* State-machine model of src/streamlit_app.py: the Streamlit session      *)
(* state (results, regenerate_target, edit_idx) and the handlers that one  *)
(* script run executes for one user event (one button click).              *)
(*                                                                         *)
(* Text is a sequence of fragments (tokens); "" is the empty sequence and  *)
(* string concatenation is \o.  Texts are cut so that every marker, line   *)
(* break, banned phrase and dynamic keyword is a fragment of its own and   *)
(* no other fragment contains one.  A JSON value decoded by resp.json() is *)
(* a record [t |-> type, ...]; a dict carries its items in the function f. *)
(* Python indices are kept 0-based, so results[idx] is results[idx + 1].   *)
(***************************************************************************)
EXTENDS Integers, Sequences, FiniteSets, TLC

VARIABLES results, regenerate_target, edit_idx, held, last

vars == <<results, regenerate_target, edit_idx, held, last>>

-----------------------------------------------------------------------------
(* Bounds of the model *)

\* most prompt versions the store holds over all artifacts: the buttons that
\* would add one more are withheld from there on
MaxVersions == 3
\* most entries in one "results" list answered by the backend
MaxBatch == 2
\* most fragments, and most lines, of a prompt text handed to check_dynamic_first
MaxTokens == 4
MaxLines == 6

-----------------------------------------------------------------------------
(* Values *)

\* Python None as the value of regenerate_target / edit_idx
None == -1

\* the options of the "快速预设" selectbox
Presets ==
    {"increase_motion", "slower_pacing", "emphasize_texture",
     "localize_dialogue", "only_change_audio"}

\* the range of the "输出条数" slider
MinOutputCount == 1
MaxOutputCount == 5
OutputCounts == MinOutputCount..MaxOutputCount

\* values uuid.uuid4() can return
Uuids == {"uuid-1", "uuid-2"}
\* no handler reads an id: the runs that do not compare ids draw from one value
OneUuid == {"uuid-1"}

\* whether the image uploader holds a file
ImageChoices == {FALSE}
AnyImage == {FALSE, TRUE}

\* values of the product name text input ("" is the widget's default)
ProductNames == {<<>>, <<"Bottle">>}

\* values of the selling points text area, after .strip()
SellingPoints == {<<>>, <<"leakproof">>}

EmptyText == <<>>

\* prompt texts the backend answers with
PromptA == <<"[0-4s]", " the product ", "is placed", " on a table.">>
PromptB == <<"[0-4s]", " ", "water", " ", "explod", "es around the product.">>
PromptC == <<"[0-4s]", " ", "rapid orbit", ", ", "smoke swirling", ".">>
\* a text the user types into the editor
PromptD == <<"my own words">>

\* sample_prompt_stub with a template that opens on a still shot
sample_prompt_stub_static(product_name) ==
    << "Strictly animate the provided product image. Vertical 9:16, 12 seconds.", "\n",
       "[0-4s]", " The product ", "is shown", " on a table, then ", "water",
       " splashes.", "\n",
       "[4-8s]", " [Transition]: Rapid ", "whip pan", " to a close-up.", "\n",
       "[8-12s]", " [Conclusion]: final hero pull-away shot." >>

\* sample_prompt_stub: the template does not use product_name
sample_prompt_stub(product_name) ==
    << "Strictly animate the provided product image. Vertical 9:16, 12 seconds.", "\n",
       "[Dynamic Start Command: High motion velocity, no static frames].", "\n", "\n",
       "[0-4s]", " [IMMEDIATE ACTION]: ", "Fast Dolly", " Zoom in towards the product; ",
       "water", " ", "explod",
       "es and splashes around the product instantly, camera performs a ",
       "rapid orbit", " while ", "handheld shake", " adds micro-jerk.", "\n",
       "[4-8s]", " [Transition]: Rapid ", "whip pan",
       " to a close-up; product rotates revealing texture and selling point.", "\n",
       "[8-12s]", " [Conclusion]: Product glows and shoots ", "light streaks",
       " upward; final hero pull-away shot with cinematic rack focus.", "\n", "\n",
       "Style tags: High motion, cinematic, 4k, no static shots.", "\n",
       "Maintain visual fidelity to the provided product image." >>

-----------------------------------------------------------------------------
(* check_dynamic_first *)

BANNED_TOKENS ==
    <<"is placed", "stands", "sits", "is shown", "is displayed", "is on">>

dynamic_keywords ==
    <<"fast dolly", "rapid orbit", "handheld shake", "whip pan", "water",
      "explod", "grab", "drops", "transformation", "wind blowing",
      "smoke swirling", "light streaks">>

\* str.lower() of one fragment: the fragments written with capitals
LowerOf(tok) ==
    CASE tok = "[0-4S]" -> "[0-4s]"
      [] tok = "[4-8S]" -> "[4-8s]"
      [] tok = "Is Placed" -> "is placed"
      [] tok = "Water" -> "water"
      [] tok = "Fast Dolly" -> "fast dolly"
      [] tok = "Strictly animate the provided product image. Vertical 9:16, 12 seconds."
            -> "strictly animate the provided product image. vertical 9:16, 12 seconds."
      [] tok = "[Dynamic Start Command: High motion velocity, no static frames]."
            -> "[dynamic start command: high motion velocity, no static frames]."
      [] tok = " [IMMEDIATE ACTION]: " -> " [immediate action]: "
      [] tok = " Zoom in towards the product; " -> " zoom in towards the product; "
      [] tok = " [Transition]: Rapid " -> " [transition]: rapid "
      [] tok = " [Conclusion]: Product glows and shoots "
            -> " [conclusion]: product glows and shoots "
      [] tok = "Style tags: High motion, cinematic, 4k, no static shots."
            -> "style tags: high motion, cinematic, 4k, no static shots."
      [] tok = "Maintain visual fidelity to the provided product image."
            -> "maintain visual fidelity to the provided product image."
      [] tok = "# Regenerated (sample variant: " -> "# regenerated (sample variant: "
      [] OTHER -> tok

\* final_prompt_text.lower()
lower(text) == [k \in 1..Len(text) |-> LowerOf(text[k])]

\* the positions of tok in text, and the first one (0 when there is none)
Positions(text, tok) == {k \in 1..Len(text) : text[k] = tok}
FirstPosition(text, tok) ==
    IF Positions(text, tok) = {} THEN 0
    ELSE CHOOSE k \in Positions(text, tok) : \A j \in Positions(text, tok) : k <= j

\* str.splitlines(): the lines between the line breaks, without a last empty one
RECURSIVE splitlines(_)
splitlines(text) ==
    IF text = <<>> THEN <<>>
    ELSE LET k == FirstPosition(text, "\n") IN
         IF k = 0 THEN <<text>>
         ELSE <<SubSeq(text, 1, k - 1)>> \o splitlines(SubSeq(text, k + 1, Len(text)))

\* x[:5]
FirstFive(lines) == SubSeq(lines, 1, IF Len(lines) < 5 THEN Len(lines) ELSE 5)

\* marker_group with a pattern that runs to the end of the text
marker_group_to_end(text, k) == SubSeq(text, k + 1, Len(text))

\* the group of \[0-4s\](.*?)(?=\[4-8s\]|\[8-12s\]|$) with re.S, matched from
\* the marker at position k: up to the next later marker, else up to the end
\* of the text or to the line break the text ends with
marker_group(text, k) ==
    LET ends == {j \in (k + 1)..Len(text) : text[j] \in {"[4-8s]", "[8-12s]"}}
        stop == IF ends # {} THEN CHOOSE j \in ends : \A i \in ends : j <= i
                ELSE IF Len(text) > k /\ text[Len(text)] = "\n" THEN Len(text)
                ELSE Len(text) + 1
    IN  SubSeq(text, k + 1, stop - 1)

\* first_segment: a str (the group) with the marker, a list of lines without
first_segment(low) ==
    LET k == FirstPosition(low, "[0-4s]") IN
    IF k # 0 THEN [kind |-> "str", v |-> marker_group(low, k)]
    ELSE [kind |-> "list", v |-> FirstFive(splitlines(low))]

\* "token in first_segment": a substring of a str, an element of a list
TokenIn(token, segment) ==
    IF segment.kind = "str"
    THEN \E k \in 1..Len(segment.v) : segment.v[k] = token
    ELSE \E k \in 1..Len(segment.v) : segment.v[k] = <<token>>

ReasonEmpty == <<"prompt is empty">>
ReasonBanned(token) == <<"banned phrase", token>>
ReasonNoDynamic == <<"no dynamic keyword">>

\* check_dynamic_first: (ok, reasons) as [ok, reasons]
check_dynamic_first(final_prompt_text) ==
    IF final_prompt_text = <<>>
    THEN [ok |-> FALSE, reasons |-> <<ReasonEmpty>>]
    ELSE LET segment == first_segment(lower(final_prompt_text))
             found == SelectSeq(BANNED_TOKENS, LAMBDA t : TokenIn(t, segment))
             banned == [k \in 1..Len(found) |-> ReasonBanned(found[k])]
             missing == IF \E k \in 1..Len(dynamic_keywords) :
                               TokenIn(dynamic_keywords[k], segment)
                        THEN <<>> ELSE <<ReasonNoDynamic>>
         IN  [ok |-> Len(banned \o missing) = 0, reasons |-> banned \o missing]

-----------------------------------------------------------------------------
(* JSON values and Python's view of them *)

JNull == [t |-> "null"]
JNum == [t |-> "num"]
JStr == [t |-> "str"]
JList(items) == [t |-> "list", items |-> items]
JObj(f) == [t |-> "obj", f |-> f]
EmptyDict == [k \in {} |-> 0]

\* bool(x)
Truthy(j) ==
    CASE j.t = "null" -> FALSE
      [] j.t = "num" -> TRUE
      [] j.t = "str" -> TRUE
      [] j.t = "list" -> j.items # <<>>
      [] j.t = "obj" -> DOMAIN j.f # {}

\* isinstance(x, dict)
IsDict(j) == j.t = "obj"

\* d.get(k, default) on a dict
Get(j, k, default) == IF k \in DOMAIN j.f THEN j.f[k] ELSE default

-----------------------------------------------------------------------------
(* HTTP replies: what requests.post / raise_for_status / resp.json() meet *)

FailStatuses == {"transport_error", "http_error", "timeout", "not_json"}

Failed(status) == [status |-> status, body |-> JNull]
Ok(body) == [status |-> "ok", body |-> body]

\* call_backend_generate / call_backend_regenerate: every exception of the
\* request, the status check and the JSON decoding is caught and answered None
call_backend(reply) == IF reply.status = "ok" THEN reply.body ELSE JNull

-----------------------------------------------------------------------------
(* The generate handler *)

\* raw payloads of the "results" list: a full one, a dict with none of the
\* keys the handler reads, and an entry that is no dict
EntryFull ==
    JObj([id |-> <<"r1">>, final_prompt |-> PromptA, audit |-> "audit-a",
          tradeoff |-> "tradeoff-a", av_plan |-> "plan-a", tags |-> <<"tag-a">>])
EntryBare == JObj([note |-> "n"])
GenerateEntries == {EntryFull, EntryBare, JStr}

BatchLists == UNION {[1..n -> GenerateEntries] : n \in 0..MaxBatch}

GenerateBodies ==
    {JObj([results |-> JList(items)]) : items \in BatchLists}
    \cup {JObj([results |-> JNull]), JObj([results |-> JStr]),
          JObj([detail |-> "x"]), JObj(EmptyDict), JList(<<JStr>>), JNull}

FailedReplies == {Failed(s) : s \in FailStatuses}

GenerateReplies == FailedReplies \cup {Ok(b) : b \in GenerateBodies}

\* the reply has the documented shape {"results": [{...}, ...]}
WellFormedGenerate(reply) ==
    /\ reply.status = "ok"
    /\ IsDict(reply.body)
    /\ "results" \in DOMAIN reply.body.f
    /\ reply.body.f.results.t = "list"
    /\ \A k \in 1..Len(reply.body.f.results.items) :
            IsDict(reply.body.f.results.items[k])

\* make_entry with the version list left empty
make_entry_unseeded(r, u) ==
    [id |-> IF Get(r, "id", EmptyText) # EmptyText THEN Get(r, "id", EmptyText)
                                                   ELSE <<u>>,
     final_prompt |-> Get(r, "final_prompt", EmptyText),
     audit |-> Get(r, "audit", "{}"),
     tradeoff |-> Get(r, "tradeoff", ""),
     av_plan |-> Get(r, "av_plan", ""),
     tags |-> Get(r, "tags", <<>>),
     versions |-> <<>>]

\* the entry built from raw payload r; u is what uuid.uuid4() returns
make_entry(r, u) ==
    [id |-> IF Get(r, "id", EmptyText) # EmptyText THEN Get(r, "id", EmptyText)
                                                   ELSE <<u>>,
     final_prompt |-> Get(r, "final_prompt", EmptyText),
     audit |-> Get(r, "audit", "{}"),
     tradeoff |-> Get(r, "tradeoff", ""),
     av_plan |-> Get(r, "av_plan", ""),
     tags |-> Get(r, "tags", <<>>),
     versions |-> <<Get(r, "final_prompt", EmptyText)>>]

\* stub_entry stamping the placeholder with the random value
stub_entry_stamped(product_name, image_file, u) ==
    [id |-> <<"stub-", u>>,
     final_prompt |-> sample_prompt_stub(product_name),
     audit |-> IF image_file THEN "image: OK" ELSE "image: NO_IMAGE",
     tradeoff |-> "sample trade-off (backend unavailable)",
     av_plan |-> "sample AV plan",
     tags |-> <<"demo", u>>,
     versions |-> <<sample_prompt_stub(product_name)>>]

\* the placeholder entry of the fallback loop
stub_entry(product_name, image_file, u) ==
    [id |-> <<"stub-", u>>,
     final_prompt |-> sample_prompt_stub(product_name),
     audit |-> IF image_file THEN "image: OK" ELSE "image: NO_IMAGE",
     tradeoff |-> "sample trade-off (backend unavailable)",
     av_plan |-> "sample AV plan",
     tags |-> <<"demo", "sample">>,
     versions |-> <<sample_prompt_stub(product_name)>>]

\* the number of entries "for r in results" handles before r.get raises (all
\* of them when every entry is a dict)
LeadingDicts(items) ==
    IF \A k \in 1..Len(items) : IsDict(items[k])
    THEN Len(items)
    ELSE (CHOOSE k \in 1..Len(items) :
            /\ ~IsDict(items[k])
            /\ \A j \in 1..(k - 1) : IsDict(items[j])) - 1

\* the test that chooses between the backend's results and the placeholders
UsesBackendResults(resp) ==
    Truthy(resp) /\ IsDict(resp) /\ "results" \in DOMAIN resp.f

\* the branch that stores the backend's results: [results, raised]
store_results(store, rs, uuids) ==
    CASE rs.t = "list" ->
            LET n == LeadingDicts(rs.items) IN
            [results |-> store \o [k \in 1..n |-> make_entry(rs.items[k], uuids[k])],
             raised |-> n < Len(rs.items)]
      [] rs.t = "str" -> [results |-> store, raised |-> TRUE]
      [] OTHER -> [results |-> store, raised |-> TRUE]

\* store_stubs with a loop that stops one placeholder short
store_stubs_short(store, output_count, product_name, image_file, uuids) ==
    [results |-> store \o [k \in 1..(output_count - 1) |->
                              stub_entry(product_name, image_file, uuids[k])],
     raised |-> FALSE]

\* store_stubs assigning a fresh list instead of appending
store_stubs_fresh(store, output_count, product_name, image_file, uuids) ==
    [results |-> [k \in 1..output_count |->
                    stub_entry(product_name, image_file, uuids[k])],
     raised |-> FALSE]

\* the branch that fills in placeholders
store_stubs(store, output_count, product_name, image_file, uuids) ==
    [results |-> store \o [k \in 1..output_count |->
                              stub_entry(product_name, image_file, uuids[k])],
     raised |-> FALSE]

\* the handler after the field validation: [results, raised, outcome]
generate_handler(store, reply, output_count, product_name, image_file, uuids) ==
    LET resp == call_backend(reply) IN
    IF UsesBackendResults(resp)
    THEN LET r == store_results(store, resp.f.results, uuids) IN
         [results |-> r.results, raised |-> r.raised,
          outcome |-> IF r.raised THEN "raised" ELSE "added"]
    ELSE LET r == store_stubs(store, output_count, product_name, image_file, uuids) IN
         [results |-> r.results, raised |-> FALSE, outcome |-> "stub"]

\* the field validation in front of the handler
ValidFields(product_name, selling_points) ==
    product_name # EmptyText /\ selling_points # EmptyText

\* the prompts an entry has held so far, for entries appended to the store
NewHeld(old, new) ==
    [k \in 1..(Len(new) - Len(old)) |-> <<new[Len(old) + k].final_prompt>>]

\* the number of prompt versions the store holds
TotalVersions(store) ==
    LET RECURSIVE Sum(_)
        Sum(k) == IF k = 0 THEN 0 ELSE Len(store[k].versions) + Sum(k - 1)
    IN  Sum(Len(store))

\* the number of entries one run builds, each with its own uuid.uuid4() at hand
UuidCalls(reply, output_count) ==
    LET resp == call_backend(reply) IN
    IF UsesBackendResults(resp)
    THEN IF resp.f.results.t = "list" THEN LeadingDicts(resp.f.results.items) ELSE 0
    ELSE output_count

\* the "生成提示词" button with fields that fail the validation
GenerateInvalid ==
    /\ ~(\A product_name \in ProductNames, selling_points \in SellingPoints :
            ValidFields(product_name, selling_points))
    /\ last' = [op |-> "generate", outcome |-> "invalid"]
    /\ UNCHANGED <<results, regenerate_target, edit_idx, held>>

\* the "生成提示词" button with valid fields
GenerateWith(product_name, selling_points, output_count, image_file, reply, uuids) ==
    LET r == generate_handler(results, reply, output_count,
                              product_name, image_file, uuids) IN
    /\ ValidFields(product_name, selling_points)
    /\ TotalVersions(r.results) <= MaxVersions
    /\ results' = r.results
    /\ held' = held \o NewHeld(results, r.results)
    /\ last' = [op |-> "generate", outcome |-> r.outcome,
                failed |-> reply.status # "ok"]
    /\ UNCHANGED <<regenerate_target, edit_idx>>

Generate(uuid_values, image_choices, replies) ==
    \/ GenerateInvalid
    \/ \E output_count \in OutputCounts :
        /\ TotalVersions(results) + output_count <= MaxVersions
        /\ \E product_name \in ProductNames \ {EmptyText},
              selling_points \in SellingPoints \ {EmptyText},
              image_file \in image_choices, reply \in replies :
            \E uuids \in [1..UuidCalls(reply, output_count) -> uuid_values] :
                GenerateWith(product_name, selling_points, output_count,
                             image_file, reply, uuids)

-----------------------------------------------------------------------------
(* The regenerate panel *)

\* presets the model's user picks
PresetChoices == {"increase_motion", "only_change_audio"}

\* bodies the /regenerate endpoint answers with
RegenerateBodies ==
    {JObj([result |-> JObj([id |-> <<"r1-v2">>, final_prompt |-> PromptB,
                            note |-> "n"])]),
     JObj([result |-> JStr]), JObj([result |-> JNull]),
     JObj([detail |-> "x"]), JObj(EmptyDict), JList(<<JStr>>), JNum, JNull}

RegenerateReplies ==
    {Failed(s) : s \in FailStatuses} \cup {Ok(b) : b \in RegenerateBodies}

\* the reply has the documented shape {"result": {...}}
WellFormedRegenerate(reply) ==
    /\ reply.status = "ok"
    /\ IsDict(reply.body)
    /\ "result" \in DOMAIN reply.body.f
    /\ IsDict(reply.body.f.result)

\* x[i] = v for a 0-based index i
SetAt(store, idx, entry) == [store EXCEPT ![idx + 1] = entry]

\* "result" in resp raises TypeError when resp is not a container
InRaises(resp) == resp.t = "num"

\* "result" in resp, for the values that support it (the strings of the
\* model, as list items or as the body, do not spell "result")
HasResult(resp) ==
    CASE resp.t = "obj" -> "result" \in DOMAIN resp.f
      [] OTHER -> FALSE

\* apply_regenerated taking over the id of the answered result as well
apply_regenerated_with_id(target, new) ==
    [target EXCEPT !.versions = Append(@, Get(new, "final_prompt", EmptyText)),
                   !.final_prompt = Get(new, "final_prompt", EmptyText),
                   !.id = Get(new, "id", target.id)]

\* the branch taken when the backend answered a result
apply_regenerated(target, new) ==
    [target EXCEPT !.versions = Append(@, Get(new, "final_prompt", EmptyText)),
                   !.final_prompt = Get(new, "final_prompt", EmptyText)]

\* the text of the sample variant
fallback_prompt(final_prompt, preset) ==
    final_prompt \o <<"\n", "\n", "# Regenerated (sample variant: ", preset, ")">>

\* the branch taken when the backend did not answer a result
apply_fallback(target, preset) ==
    [target EXCEPT !.versions = Append(@, fallback_prompt(target.final_prompt, preset)),
                   !.final_prompt = fallback_prompt(target.final_prompt, preset)]

\* the body of "if st.button(确认重新生成)": [results, regenerate_target, outcome]
confirm_regen(store, idx, preset, reply) ==
    LET resp == call_backend(reply)
        target == store[idx + 1]
    IN  IF Truthy(resp) /\ InRaises(resp)
        THEN [results |-> store, regenerate_target |-> idx, outcome |-> "raised"]
        ELSE IF Truthy(resp) /\ HasResult(resp)
        THEN IF IsDict(resp) /\ IsDict(resp.f.result)
             THEN [results |-> SetAt(store, idx, apply_regenerated(target, resp.f.result)),
                   regenerate_target |-> None, outcome |-> "replaced"]
             ELSE [results |-> store, regenerate_target |-> idx, outcome |-> "raised"]
        ELSE [results |-> SetAt(store, idx, apply_fallback(target, preset)),
              regenerate_target |-> None, outcome |-> "fallback"]

\* the panel is drawn for a target inside the list
PanelShown(idx, store) == idx # None /\ 0 <= idx /\ idx < Len(store)

\* the "确认重新生成" button
ConfirmRegenWith(preset, reply) ==
    LET r == confirm_regen(results, regenerate_target, preset, reply) IN
    /\ PanelShown(regenerate_target, results)
    /\ TotalVersions(results) < MaxVersions
    /\ results' = r.results
    /\ regenerate_target' = r.regenerate_target
    /\ held' = IF r.results = results THEN held
               ELSE [held EXCEPT ![regenerate_target + 1] =
                        Append(@, r.results[regenerate_target + 1].final_prompt)]
    /\ last' = [op |-> "confirm_regen", outcome |-> r.outcome]
    /\ UNCHANGED edit_idx

ConfirmRegen ==
    \E preset \in PresetChoices, reply \in RegenerateReplies :
        ConfirmRegenWith(preset, reply)

-----------------------------------------------------------------------------
(* The result list *)

\* ClickRegenerate refusing a second session while one is open
ClickRegenerate_conflict(i) ==
    /\ regenerate_target' = IF regenerate_target = None THEN i ELSE regenerate_target
    /\ last' = [op |-> "regenerate", idx |-> i,
                outcome |-> IF regenerate_target = None THEN "opened" ELSE "conflict"]
    /\ UNCHANGED <<results, edit_idx, held>>

\* the "Regenerate" button of result i, followed by st.experimental_rerun()
ClickRegenerate(i) ==
    /\ regenerate_target' = i
    /\ last' = [op |-> "regenerate", idx |-> i,
                outcome |-> IF regenerate_target = None THEN "opened" ELSE "switched"]
    /\ UNCHANGED <<results, edit_idx, held>>

\* the "Edit & Optimize" button of result i
ClickEdit(i) ==
    /\ edit_idx' = i
    /\ last' = [op |-> "edit", idx |-> i, outcome |-> "opened"]
    /\ UNCHANGED <<results, regenerate_target, held>>

-----------------------------------------------------------------------------
(* The edit panel *)

\* texts the user leaves in the editor
Drafts == {PromptD}

\* bodies the /validate_and_optimize endpoint answers with
OptimizeBodies ==
    {JObj([optimized_prompt |-> PromptC]), JObj([detail |-> "x"]),
     JList(<<JStr>>), JNull}

OptimizeReplies ==
    {Failed(s) : s \in FailStatuses} \cup {Ok(b) : b \in OptimizeBodies}

\* the try block raises: the request, the status check, the decoding or
\* data.get on a value that is no dict
OptimizeRaises(reply) == reply.status # "ok" \/ ~IsDict(reply.body)

\* apply_edit overwriting the prompt without keeping the old one
apply_edit_no_history(entry, new_prompt) ==
    [entry EXCEPT !.final_prompt = new_prompt]

\* both branches append the prompt shown so far and then replace it
apply_edit(entry, new_prompt) ==
    [entry EXCEPT !.versions = Append(@, entry.final_prompt),
                  !.final_prompt = new_prompt]

\* the body of "if st.button(Optimize & Validate)": [results, edit_idx, outcome]
confirm_edit(store, idx, txt, reply) ==
    IF OptimizeRaises(reply)
    THEN [results |-> SetAt(store, idx, apply_edit(store[idx + 1], txt)),
          edit_idx |-> None, outcome |-> "saved_draft"]
    ELSE [results |-> SetAt(store, idx,
                            apply_edit(store[idx + 1],
                                       Get(reply.body, "optimized_prompt", txt))),
          edit_idx |-> None, outcome |-> "optimized"]

\* the "Optimize & Validate" button
ConfirmEditWith(txt, reply) ==
    LET r == confirm_edit(results, edit_idx, txt, reply) IN
    /\ results # <<>>
    /\ PanelShown(edit_idx, results)
    /\ TotalVersions(results) < MaxVersions
    /\ results' = r.results
    /\ edit_idx' = r.edit_idx
    /\ held' = [held EXCEPT ![edit_idx + 1] =
                    Append(@, r.results[edit_idx + 1].final_prompt)]
    /\ last' = [op |-> "confirm_edit", outcome |-> r.outcome]
    /\ UNCHANGED regenerate_target

ConfirmEdit ==
    \E txt \in Drafts, reply \in OptimizeReplies : ConfirmEditWith(txt, reply)

\* CancelEdit keeping the text of the editor as the new prompt
CancelEdit_saves ==
    /\ results # <<>>
    /\ PanelShown(edit_idx, results)
    /\ results' = SetAt(results, edit_idx, apply_edit(results[edit_idx + 1], PromptD))
    /\ edit_idx' = None
    /\ last' = [op |-> "cancel_edit", outcome |-> "closed"]
    /\ UNCHANGED <<regenerate_target, held>>

\* the "Cancel Edit" button
CancelEdit ==
    /\ results # <<>>
    /\ PanelShown(edit_idx, results)
    /\ edit_idx' = None
    /\ last' = [op |-> "cancel_edit", outcome |-> "closed"]
    /\ UNCHANGED <<results, regenerate_target, held>>

-----------------------------------------------------------------------------
(* The result list drawn for prompt texts of any content *)

\* fragments of the prompt texts: markers in both cases, banned phrases, a
\* dynamic keyword written with a capital, white space and a neutral word
CheckTokens ==
    {"[0-4s]", "[0-4S]", "[4-8s]", "[8-12s]", "is placed", "is on", "Water",
     "\n", " ", "x"}

TokenTexts == UNION {[1..n -> CheckTokens] : n \in 0..MaxTokens}

\* lines of prompt texts without a marker
LineKinds ==
    {<<"x">>, <<"is placed">>, <<"the product ", "is placed">>, <<"water">>,
     <<"Water", " splash">>}

\* "\n".join(lines)
RECURSIVE JoinLines(_)
JoinLines(lines) ==
    IF Len(lines) = 1 THEN lines[1]
    ELSE lines[1] \o <<"\n">> \o JoinLines(Tail(lines))

LineTexts ==
    {JoinLines(lines) : lines \in UNION {[1..n -> LineKinds] : n \in 1..MaxLines}}

\* values of final_prompt: what a backend answers or a user types
CheckTexts == TokenTexts \cup LineTexts

\* the "生成结果" loop: check_dynamic_first on the prompt of every result
RenderResults ==
    /\ results # <<>>
    /\ last' = [op |-> "render",
                outcome |-> [k \in 1..Len(results) |->
                                check_dynamic_first(results[k].final_prompt)]]
    /\ UNCHANGED <<results, regenerate_target, edit_idx, held>>

\* the session after one generate run answered one result with the given prompt
InitValidator ==
    /\ \E text \in CheckTexts :
        /\ results = <<make_entry(JObj([final_prompt |-> text]), "uuid-1")>>
        /\ held = <<<<text>>>>
    /\ regenerate_target = None
    /\ edit_idx = None
    /\ last = [op |-> "init", outcome |-> "none"]

NextValidator == RenderResults

SpecValidator == InitValidator /\ [][NextValidator]_vars

-----------------------------------------------------------------------------
Init ==
    /\ results = <<>>
    /\ regenerate_target = None
    /\ edit_idx = None
    /\ held = <<>>
    /\ last = [op |-> "init", outcome |-> "none"]

Next ==
    \/ Generate(OneUuid, ImageChoices, GenerateReplies)
    \/ ConfirmRegen
    \/ \E i \in 0..(Len(results) - 1) : ClickRegenerate(i)
    \/ \E i \in 0..(Len(results) - 1) : ClickEdit(i)
    \/ ConfirmEdit
    \/ CancelEdit

Spec == Init /\ [][Next]_vars

\* the program with uuid.uuid4() and the image uploader unrestricted, while
\* the /generate endpoint is out of reach and the editor is left alone
NextIds ==
    \/ Generate(Uuids, AnyImage, FailedReplies)
    \/ ConfirmRegen
    \/ \E i \in 0..(Len(results) - 1) : ClickRegenerate(i)

SpecIds == Init /\ [][NextIds]_vars

-----------------------------------------------------------------------------
(* Properties *)

IsPrefix(a, b) == Len(a) <= Len(b) /\ SubSeq(b, 1, Len(a)) = a

\* a can be obtained from b by deleting elements
RECURSIVE IsSubseq(_, _)
IsSubseq(a, b) ==
    IF a = <<>> THEN TRUE
    ELSE IF b = <<>> THEN FALSE
    ELSE IF Head(a) = Head(b) THEN IsSubseq(Tail(a), Tail(b))
    ELSE IsSubseq(a, Tail(b))

\* the artifacts of the store, as 1-based positions
Artifacts == 1..Len(results)

\* artifact i is changed by the step
Mutated(i) == results'[i] # results[i]

\* C1: every mutation of an artifact's prompt appends exactly one element to
\* its version list, and that element is the prompt the artifact held before
C1_AppendsPriorPrompt ==
    [][\A i \in Artifacts :
        Mutated(i) =>
            results'[i].versions = Append(results[i].versions, results[i].final_prompt)]_vars

\* C2: versions followed by the current prompt holds every prompt the artifact
\* has ever held, in the order held
C2_FullRecord ==
    \A i \in Artifacts :
        IsSubseq(held[i], Append(results[i].versions, results[i].final_prompt))

\* C3: the version list is never empty, starts with the prompt the artifact
\* was created with, and every step keeps the old list as a prefix of the new
C3_HistorySeededAndGrowing ==
    /\ [](\A i \in Artifacts :
            /\ results[i].versions # <<>>
            /\ results[i].versions[1] = held[i][1])
    /\ [][/\ Len(results') >= Len(results)
          /\ \A i \in Artifacts :
                IsPrefix(results[i].versions, results'[i].versions)]_vars

C3_Witness ==
    \E i \in Artifacts :
        /\ Len(results[i].versions) = MaxVersions
        /\ last.op = "confirm_regen"

\* C4: a regeneration session and an edit session are never open together
C4_AtMostOneSession == ~(regenerate_target # None /\ edit_idx # None)

EndsWithMarker(text, old, preset) ==
    /\ Len(text) = Len(old) + 5
    /\ SubSeq(text, 1, Len(old)) = old
    /\ text[Len(text) - 1] = preset

\* C6: every confirmed regeneration closes the session and adds one version
\* to the target; without a usable answer the new prompt is the old one with
\* the marker naming the preset, with one it is the answered prompt
C6_ConfirmAlwaysMutatesAndCloses ==
    [][last'.op = "confirm_regen" =>
        \A preset \in PresetChoices, reply \in RegenerateReplies :
            ConfirmRegenWith(preset, reply) =>
                LET i == regenerate_target + 1 IN
                /\ regenerate_target' = None
                /\ Len(results'[i].versions) = Len(results[i].versions) + 1
                /\ IF WellFormedRegenerate(reply)
                   THEN results'[i].final_prompt =
                            Get(reply.body.f.result, "final_prompt", EmptyText)
                   ELSE EndsWithMarker(results'[i].final_prompt,
                                       results[i].final_prompt, preset)]_vars

\* C7: a generate run with valid fields adds at least one artifact, whether
\* the call fails or answers a results list of the documented shape, empty or not
C7_GenerateAddsAtLeastOne ==
    [][last'.op = "generate" =>
        \A product_name \in ProductNames \ {EmptyText},
           selling_points \in SellingPoints \ {EmptyText},
           output_count \in OutputCounts, image_file \in ImageChoices,
           reply \in GenerateReplies :
            \A uuids \in [1..UuidCalls(reply, output_count) -> OneUuid] :
                (/\ reply.status # "ok" \/ WellFormedGenerate(reply)
                 /\ GenerateWith(product_name, selling_points, output_count,
                                 image_file, reply, uuids))
                    => Len(results') > Len(results)]_vars

\* C8: when the generate call fails (transport error, error status, timeout,
\* body that is not JSON) the run adds exactly output_count artifacts, each
\* with a non-empty prompt that is also its only version, and nothing is raised
C8_FailingGatewayAddsStubs ==
    [][(last'.op = "generate" /\ last'.outcome # "invalid" /\ last'.failed) =>
        \A product_name \in ProductNames \ {EmptyText},
           selling_points \in SellingPoints \ {EmptyText},
           output_count \in OutputCounts, image_file \in ImageChoices,
           status \in FailStatuses :
            \A uuids \in [1..output_count -> OneUuid] :
                GenerateWith(product_name, selling_points, output_count,
                             image_file, Failed(status), uuids) =>
                    /\ Len(results') = Len(results) + output_count
                    /\ SubSeq(results', 1, Len(results)) = results
                    /\ last'.outcome = "stub"
                    /\ \A k \in (Len(results) + 1)..Len(results') :
                        /\ results'[k].final_prompt # EmptyText
                        /\ results'[k].versions = <<results'[k].final_prompt>>]_vars

C8_Witness ==
    /\ last = [op |-> "generate", outcome |-> "stub", failed |-> TRUE]
    /\ Len(results) = MaxVersions
    /\ \A k \in Artifacts : Head(results[k].id) = "stub-"

\* C9: a reply that is not a success of the documented shape takes the
\* fallback path of the handler and nothing is raised
C9_BadRepliesFallBack ==
    [][/\ last'.op = "generate" =>
            \A product_name \in ProductNames \ {EmptyText},
               selling_points \in SellingPoints \ {EmptyText},
               output_count \in OutputCounts, image_file \in ImageChoices,
               reply \in GenerateReplies :
                \A uuids \in [1..UuidCalls(reply, output_count) -> OneUuid] :
                    (/\ ~WellFormedGenerate(reply)
                     /\ GenerateWith(product_name, selling_points, output_count,
                                     image_file, reply, uuids))
                        => last'.outcome = "stub"
       /\ last'.op = "confirm_regen" =>
            \A preset \in PresetChoices, reply \in RegenerateReplies :
                (~WellFormedRegenerate(reply) /\ ConfirmRegenWith(preset, reply))
                    => last'.outcome = "fallback"]_vars

\* the optimize call answered an optimized text
OptimizeSucceeds(reply) ==
    reply.status = "ok" /\ IsDict(reply.body)
        /\ "optimized_prompt" \in DOMAIN reply.body.f

\* C10: a confirmed edit sets the prompt to the optimized text when the
\* optimize call answers one and to the draft as typed otherwise; either way
\* the version list grows by one and the edit session is closed
C10_ConfirmEdit ==
    [][last'.op = "confirm_edit" =>
        \A txt \in Drafts, reply \in OptimizeReplies :
            ConfirmEditWith(txt, reply) =>
                LET i == edit_idx + 1 IN
                /\ results'[i].final_prompt =
                      IF OptimizeSucceeds(reply)
                      THEN reply.body.f.optimized_prompt
                      ELSE txt
                /\ Len(results'[i].versions) = Len(results[i].versions) + 1
                /\ edit_idx' = None
                /\ \A j \in Artifacts \ {i} : results'[j] = results[j]]_vars

C10_Witness ==
    /\ last = [op |-> "confirm_edit", outcome |-> "saved_draft"]
    /\ edit_idx = None
    /\ \E i \in Artifacts :
        /\ results[i].final_prompt = PromptD
        /\ Len(results[i].versions) = 2

\* C11: Cancel Edit closes the edit session and leaves every artifact of the
\* store as it was
C11_CancelEditDiscards ==
    [][last'.op = "cancel_edit" =>
        /\ edit_idx # None
        /\ edit_idx' = None
        /\ results' = results]_vars

C11_Witness ==
    /\ last.op = "cancel_edit"
    /\ edit_idx = None
    /\ \E i \in Artifacts : Len(results[i].versions) >= 2

\* C12: whenever a regeneration session is open, a step is possible that
\* closes it and leaves every artifact as it was
C12_CancelRegenerationAvailable ==
    regenerate_target # None =>
        ENABLED (Next /\ regenerate_target' = None /\ results' = results)

\* C13: an artifact changes only in the confirm step of the session bound to
\* it at that moment, a step changes at most one artifact, generate, the
\* session buttons and cancel change none, and no step changes an id
C13_OnlyConfirmMutates ==
    [][/\ Len(results') >= Len(results)
       /\ \A i \in Artifacts :
            /\ results'[i].id = results[i].id
            /\ Mutated(i) =>
                \/ last'.op = "confirm_regen" /\ regenerate_target = i - 1
                \/ last'.op = "confirm_edit" /\ edit_idx = i - 1
       /\ Cardinality({i \in Artifacts : Mutated(i)}) <= 1
       /\ last'.op \in {"generate", "regenerate", "edit", "cancel_edit"} =>
            SubSeq(results', 1, Len(results)) = results]_vars

C13_Witness ==
    /\ last = [op |-> "confirm_regen", outcome |-> "replaced"]
    /\ Len(results) >= 2
    /\ \E i \in Artifacts : results[i].final_prompt = PromptB /\ results[i].id # <<"r1-v2">>

\* the entries without their ids
WithoutIds(store) == [k \in 1..Len(store) |-> [store[k] EXCEPT !.id = <<>>]]

\* C17 as claimed, under SpecIds: a failing generate run is determined by the
\* store, the product name and the count; any other such run from the same
\* store gives the same store
C17_StubsDeterministic ==
    [][(last'.op = "generate" /\ last'.outcome # "invalid" /\ last'.failed) =>
        \A product_name \in ProductNames \ {EmptyText},
           selling_points \in SellingPoints \ {EmptyText},
           output_count \in {Len(results') - Len(results)}, image_file \in AnyImage,
           status \in FailStatuses :
            \A uuids \in [1..output_count -> Uuids] :
                GenerateWith(product_name, selling_points, output_count,
                             image_file, Failed(status), uuids) =>
                    \A image_other \in AnyImage,
                       uuids_other \in [1..output_count -> Uuids] :
                        generate_handler(results, Failed(status), output_count,
                                         product_name, image_other, uuids_other).results
                            = results']_vars

\* C17 as amended, under SpecIds: any other failing run from the same store
\* with the same product name, count and image choice gives the same prompts,
\* version lists and metadata; the ids all start with "stub-"
C17_StubsAgreeUpToIds ==
    [][(last'.op = "generate" /\ last'.outcome # "invalid" /\ last'.failed) =>
        \A product_name \in ProductNames \ {EmptyText},
           selling_points \in SellingPoints \ {EmptyText},
           output_count \in {Len(results') - Len(results)}, image_file \in AnyImage,
           status \in FailStatuses :
            \A uuids \in [1..output_count -> Uuids] :
                GenerateWith(product_name, selling_points, output_count,
                             image_file, Failed(status), uuids) =>
                    /\ \A k \in (Len(results) + 1)..Len(results') :
                            Head(results'[k].id) = "stub-"
                    /\ \A uuids_other \in [1..output_count -> Uuids] :
                        WithoutIds(generate_handler(results, Failed(status),
                                       output_count, product_name, image_file,
                                       uuids_other).results)
                            = WithoutIds(results')]_vars

C17_Witness ==
    /\ last = [op |-> "generate", outcome |-> "stub", failed |-> TRUE]
    /\ \E i, j \in Artifacts :
        /\ Head(results[i].id) = "stub-" /\ Head(results[j].id) = "stub-"
        /\ results[i].id # results[j].id
        /\ results[i].audit # results[j].audit

\* C18: the store only grows and keeps every artifact at its position, a
\* session slot changes only through its own buttons, and an open session
\* always points at an artifact of the store, so its panel with the confirm
\* button is drawn
C18_SessionsStayValid ==
    /\ [](regenerate_target # None => PanelShown(regenerate_target, results))
    /\ [](edit_idx # None => (results # <<>> /\ PanelShown(edit_idx, results)))
    /\ [][/\ Len(results') >= Len(results)
          /\ \A i \in Artifacts :
                results'[i].id = results[i].id /\ held'[i][1] = held[i][1]
          /\ regenerate_target' # regenerate_target =>
                last'.op \in {"regenerate", "confirm_regen"}
          /\ edit_idx' # edit_idx =>
                last'.op \in {"edit", "confirm_edit", "cancel_edit"}]_vars

C18_Witness ==
    /\ last.op = "generate" /\ last.outcome \in {"added", "stub"}
    /\ regenerate_target = 0
    /\ edit_idx = 0
    /\ Len(results) >= 2

\* artifact i is a placeholder that only took sample variants since
OfflineOnly(i) ==
    /\ Head(results[i].id) = "stub-"
    /\ \A k \in 2..Len(held[i]) :
        \E preset \in Presets : held[i][k] = fallback_prompt(held[i][k - 1], preset)

\* C19: a placeholder artifact, after any number of sample variants with any
\* preset, holds a prompt that check_dynamic_first passes without reasons
C19_OfflineArtifactsPass ==
    \A i \in Artifacts :
        OfflineOnly(i) =>
            check_dynamic_first(results[i].final_prompt) = [ok |-> TRUE, reasons |-> <<>>]

C19_Witness ==
    \E i \in Artifacts :
        /\ OfflineOnly(i)
        /\ Len(held[i]) = MaxVersions
        /\ last = [op |-> "confirm_regen", outcome |-> "fallback"]

-----------------------------------------------------------------------------
(* Properties of check_dynamic_first, under SpecValidator *)

\* the text is empty or white space only
IsBlank(text) == \A k \in 1..Len(text) : text[k] \in {" ", "\n"}

HasMarker(text) == \E k \in 1..Len(text) : LowerOf(text[k]) = "[0-4s]"

\* the reasons the policy gives for an opening holding the fragments S: one
\* per banned phrase, in the order of the list, then the missing keyword
ExpectedReasons(S) ==
    LET found == SelectSeq(BANNED_TOKENS, LAMBDA t : t \in S) IN
    [k \in 1..Len(found) |-> ReasonBanned(found[k])]
        \o (IF \E k \in 1..Len(dynamic_keywords) : dynamic_keywords[k] \in S
            THEN <<>> ELSE <<ReasonNoDynamic>>)

\* the fragments of the first five lines, in lower case
OpeningLines(text) ==
    {LowerOf(text[k]) : k \in {j \in 1..Len(text) :
        /\ text[j] # "\n"
        /\ Cardinality({i \in 1..(j - 1) : text[i] = "\n"}) < 5}}

\* the fragments after the first [0-4s] and before the next later [4-8s] or
\* [8-12s], in lower case
OpeningSegment(text) ==
    LET low == lower(text)
        i == CHOOSE k \in 1..Len(low) :
                low[k] = "[0-4s]" /\ \A j \in 1..(k - 1) : low[j] # "[0-4s]"
    IN  {low[j] : j \in {n \in (i + 1)..Len(low) :
            \A m \in (i + 1)..n : low[m] \notin {"[4-8s]", "[8-12s]"}}}

\* C14: a prompt that is empty or white space only fails with the single
\* reason "prompt is empty"
C14_BlankIsEmpty ==
    last.op = "render" =>
        \A k \in Artifacts :
            IsBlank(results[k].final_prompt) =>
                last.outcome[k] = [ok |-> FALSE, reasons |-> <<ReasonEmpty>>]

\* C15: without a [0-4s] marker the reasons are those of the text of the first
\* five lines: one per banned phrase occurring in them, then the missing
\* keyword unless a dynamic keyword occurs in them
C15_FirstFiveLines ==
    last.op = "render" =>
        \A k \in Artifacts :
            LET text == results[k].final_prompt IN
            (~IsBlank(text) /\ ~HasMarker(text)) =>
                /\ last.outcome[k].reasons = ExpectedReasons(OpeningLines(text))
                /\ last.outcome[k].ok = (last.outcome[k].reasons = <<>>)

\* C16: with a [0-4s] marker, in either case, the reasons are those of the
\* segment after the first marker up to the next [4-8s] or [8-12s] or the end:
\* one per banned phrase found, then at most one missing keyword; passed is
\* true exactly when the segment has no banned phrase and a dynamic keyword,
\* which is when there are no reasons
C16_MarkedSegment ==
    last.op = "render" =>
        \A k \in Artifacts :
            LET text == results[k].final_prompt
                S == OpeningSegment(text)
            IN  HasMarker(text) =>
                /\ last.outcome[k].reasons = ExpectedReasons(S)
                /\ last.outcome[k].ok =
                    (/\ \A b \in 1..Len(BANNED_TOKENS) : BANNED_TOKENS[b] \notin S
                     /\ \E d \in 1..Len(dynamic_keywords) : dynamic_keywords[d] \in S)
                /\ last.outcome[k].ok = (last.outcome[k].reasons = <<>>)

C16_Witness ==
    /\ last.op = "render"
    /\ results[1].final_prompt = <<"[0-4S]", "is placed", "[8-12s]", "Water">>
    /\ last.outcome[1] =
        [ok |-> FALSE,
         reasons |-> <<ReasonBanned("is placed"), ReasonNoDynamic>>]
====
